---- MODULE Spec2Model ----
(***************************************************************************)
(* distwiz: sparse "label1 label2 distance" triples to a dense, labelled,  *)
(* gzip-compressed square matrix.  src/distwiz.go holds three programs:    *)
(*   "pair"  lines   1-111  pair-keyed map, errors returned to main        *)
(*   "dual"  lines 113-368  label scan, then in-memory or disk-scanning    *)
(*   "fatal" lines 370-476  pair-keyed map, log.Fatal inside the functions *)
(* One run of one program over one input file is one behaviour.            *)
(***************************************************************************)
EXTENDS Integers, Sequences, FiniteSets, TLC

\* ---------------------------------------------------------------- bounds
\* Longest input file, in lines.
MaxLines == 3

\* const LargeNThreshold (src/distwiz.go:128 sets 10000), scaled down so
\* that label counts below, at and above the threshold are all reachable.
LargeNThreshold == 2

\* ---------------------------------------------------------------- inputs
Whitespace == {" ", "\t"}

\* A line is a sequence of whitespace runs and tokens.
Lines ==
  { <<"A", " ", "B", " ", "0.5">>,
    <<"B", "\t", "A", "\t", "0.9">>,
    <<"A", " ", "B", " ", "0.9">>,
    <<"B", " ", "C", " ", "0.2">>,
    <<" ", "C", " ", "\t", "D", " ", "0.26", " ">>,
    <<"A", " ", "A", " ", "0.5">>,
    <<"C", " ", "A">>,
    <<"D">>,
    << >>,
    <<"A", " ", "B", " ", "x">>,
    <<"A", " ", "C", " ", "0.5", " ", "z">>,
    <<"AB", " ", "A", " ", "0.2">> }

Inputs == UNION { [1..n -> Lines] : n \in 0..MaxLines }

\* Program and value of the documented --mode flag ("" = flag not given).
Configs ==
  { <<"pair", "">>, <<"fatal", "">> }
    \cup { <<"dual", m>> : m \in {"", "auto", "mem", "disk"} }

\* --compresslevel values: the default and one gzip rejects.
CompressLevels == {4, 10}

\* ------------------------------------------------- library primitives
\* Byte content of the tokens, for Go's bytewise string comparison.
Bytes(s) ==
  CASE s = "A"    -> <<65>>
    [] s = "AB"   -> <<65, 66>>
    [] s = "B"    -> <<66>>
    [] s = "C"    -> <<67>>
    [] s = "D"    -> <<68>>
    [] s = "0.2"  -> <<48, 46, 50>>
    [] s = "0.26" -> <<48, 46, 50, 54>>
    [] s = "0.5"  -> <<48, 46, 53>>
    [] s = "0.9"  -> <<48, 46, 57>>
    [] s = "x"    -> <<120>>
    [] s = "z"    -> <<122>>

RECURSIVE LexLess(_, _)
LexLess(x, y) ==
  IF x = << >> THEN y # << >>
  ELSE IF y = << >> THEN FALSE
  ELSE IF Head(x) < Head(y) THEN TRUE
  ELSE IF Head(x) > Head(y) THEN FALSE
  ELSE LexLess(Tail(x), Tail(y))

StrLess(a, b) == LexLess(Bytes(a), Bytes(b))

\* sort.Strings applied to the keys of a set-like map.
RECURSIVE SortStrings(_)
SortStrings(S) ==
  IF S = {} THEN << >>
  ELSE LET m == CHOOSE x \in S : \A y \in S \ {x} : StrLess(x, y)
       IN  <<m>> \o SortStrings(S \ {m})

\* strings.Fields: the maximal non-whitespace runs of the line.
Fields(line) == SelectSeq(line, LAMBDA c : c \notin Whitespace)

\* strconv.ParseFloat(tok, 64); values are kept in hundredths.
ParseFloat(tok) ==
  CASE tok = "0.2"  -> [ok |-> TRUE, val |-> 20]
    [] tok = "0.26" -> [ok |-> TRUE, val |-> 26]
    [] tok = "0.5"  -> [ok |-> TRUE, val |-> 50]
    [] tok = "0.9"  -> [ok |-> TRUE, val |-> 90]
    [] OTHER        -> [ok |-> FALSE, val |-> 0]

TenthStr(t) ==
  CASE t = 0  -> "0.0"
    [] t = 1  -> "0.1"
    [] t = 2  -> "0.2"
    [] t = 3  -> "0.3"
    [] t = 4  -> "0.4"
    [] t = 5  -> "0.5"
    [] t = 6  -> "0.6"
    [] t = 7  -> "0.7"
    [] t = 8  -> "0.8"
    [] t = 9  -> "0.9"
    [] t = 10 -> "1.0"

\* fmt.Sprintf("%.1f", v): v rounded to the nearest tenth (no value of the
\* input alphabet lies on a rounding tie).
FormatF1(v) == TenthStr((v + 5) \div 10)

\* gzip.NewWriterLevel accepts HuffmanOnly (-2) .. BestCompression (9).
GzipLevelOK(level) == level >= -2 /\ level <= 9

EmptyMap == [x \in {} |-> 0]

\* Go map assignment m[k] = v.
MapPut(m, k, v) == [x \in (DOMAIN m) \cup {k} |-> IF x = k THEN v ELSE m[x]]

\* ------------------------------------------------ program "dual": scan
\* scanLine with the field-count test of the distance passes (!= 3).
scanLineThreeFields(labelsSet, line) ==
  LET parts == Fields(line)
  IN  IF Len(parts) # 3 THEN labelsSet
      ELSE labelsSet \cup {parts[1], parts[2]}

\* Loop body of scanForLabels: lines with fewer than two fields are skipped.
scanLine(labelsSet, line) ==
  LET parts == Fields(line)
  IN  IF Len(parts) < 2 THEN labelsSet
      ELSE labelsSet \cup {parts[1], parts[2]}

RECURSIVE scanLoop(_, _)
scanLoop(lines, n) ==
  IF n = 0 THEN {} ELSE scanLine(scanLoop(lines, n - 1), lines[n])

scanForLabels(lines) == SortStrings(scanLoop(lines, Len(lines)))

\* ------------------------------------------- program "dual": in memory
\* ingestLine that keeps a value already stored for the pair.
ingestLineFirstWins(data, line) ==
  LET parts == Fields(line)
  IN  IF Len(parts) # 3 THEN data
      ELSE LET label1 == parts[1]
               label2 == parts[2]
               f == ParseFloat(parts[3])
           IN  IF ~f.ok THEN data
               ELSE IF label1 \in DOMAIN data /\ label2 \in DOMAIN data[label1]
               THEN data
               ELSE LET d1 == IF label1 \in DOMAIN data THEN data
                              ELSE MapPut(data, label1, EmptyMap)
                        d2 == IF label2 \in DOMAIN d1 THEN d1
                              ELSE MapPut(d1, label2, EmptyMap)
                        d3 == MapPut(d2, label1, MapPut(d2[label1], label2, f.val))
                    IN  MapPut(d3, label2, MapPut(d3[label2], label1, f.val))

\* Loop body of readInputFileIntoMemory.
ingestLine(data, line) ==
  LET parts == Fields(line)
  IN  IF Len(parts) # 3 THEN data
      ELSE LET label1 == parts[1]
               label2 == parts[2]
               f == ParseFloat(parts[3])
           IN  IF ~f.ok THEN data
               ELSE LET d1 == IF label1 \in DOMAIN data THEN data
                              ELSE MapPut(data, label1, EmptyMap)
                        d2 == IF label2 \in DOMAIN d1 THEN d1
                              ELSE MapPut(d1, label2, EmptyMap)
                        d3 == MapPut(d2, label1, MapPut(d2[label1], label2, f.val))
                    IN  MapPut(d3, label2, MapPut(d3[label2], label1, f.val))

RECURSIVE ingestLoop(_, _)
ingestLoop(lines, n) ==
  IF n = 0 THEN EmptyMap ELSE ingestLine(ingestLoop(lines, n - 1), lines[n])

readInputFileIntoMemory(lines) == ingestLoop(lines, Len(lines))

\* cellInMemory without the diagonal test.
cellInMemoryNoDiagonal(label1, label2, data) ==
  IF label1 \in DOMAIN data /\ label2 \in DOMAIN data[label1]
  THEN FormatF1(data[label1][label2])
  ELSE "1.0"

\* One cell of writeRowInMemory; a lookup in a nil inner map finds nothing.
cellInMemory(label1, label2, data) ==
  IF label1 = label2 THEN "0.0"
  ELSE IF label1 \in DOMAIN data /\ label2 \in DOMAIN data[label1]
       THEN FormatF1(data[label1][label2])
       ELSE "1.0"

writeRowInMemory(label1, lbls, data) ==
  [j \in 1..Len(lbls) |-> cellInMemory(label1, lbls[j], data)]

\* ------------------------------------------ program "dual": disk scan
\* rowScanLine that matches the row label in the first field only.
rowScanLineFirstFieldOnly(dists, label1, line) ==
  LET parts == Fields(line)
  IN  IF Len(parts) # 3 THEN dists
      ELSE IF parts[1] = label1
      THEN LET f == ParseFloat(parts[3])
           IN  IF ~f.ok THEN dists
               ELSE MapPut(dists, parts[2], f.val)
      ELSE dists

\* Loop body of the scan in writeRow.
rowScanLine(dists, label1, line) ==
  LET parts == Fields(line)
  IN  IF Len(parts) # 3 THEN dists
      ELSE IF parts[1] = label1 \/ parts[2] = label1
      THEN LET f == ParseFloat(parts[3])
           IN  IF ~f.ok THEN dists
               ELSE IF parts[1] = label1 THEN MapPut(dists, parts[2], f.val)
               ELSE MapPut(dists, parts[1], f.val)
      ELSE dists

RECURSIVE rowScanLoop(_, _, _)
rowScanLoop(lines, label1, n) ==
  IF n = 0 THEN EmptyMap
  ELSE rowScanLine(rowScanLoop(lines, label1, n - 1), label1, lines[n])

\* cellDisk with 0.0 as the fill value.
cellDiskDefaultZero(label1, label2, dists) ==
  IF label1 = label2 THEN "0.0"
  ELSE IF label2 \in DOMAIN dists THEN FormatF1(dists[label2])
  ELSE "0.0"

\* One cell of writeRow.
cellDisk(label1, label2, dists) ==
  IF label1 = label2 THEN "0.0"
  ELSE IF label2 \in DOMAIN dists THEN FormatF1(dists[label2])
  ELSE "1.0"

writeRow(lines, label1, lbls) ==
  LET dists == rowScanLoop(lines, label1, Len(lines))
  IN  [j \in 1..Len(lbls) |-> cellDisk(label1, lbls[j], dists)]

\* --------------------------------------- programs "pair" and "fatal"
\* sparseLine that skips a bad line instead of failing.
sparseLineLenient(acc, line) ==
  LET parts == Fields(line)
  IN  IF Len(parts) # 3 THEN acc
      ELSE LET f == ParseFloat(parts[3])
           IN  IF ~f.ok THEN acc
               ELSE [err |-> FALSE,
                     distances |-> MapPut(acc.distances, <<parts[1], parts[2]>>, f.val),
                     labelsSet |-> acc.labelsSet \cup {parts[1], parts[2]}]

\* Loop body of readSparseMatrix: a line that is not three fields, or whose
\* distance does not parse, ends the read with an error.
sparseLine(acc, line) ==
  LET parts == Fields(line)
  IN  IF acc.err THEN acc
      ELSE IF Len(parts) # 3 THEN [acc EXCEPT !.err = TRUE]
      ELSE LET f == ParseFloat(parts[3])
           IN  IF ~f.ok THEN [acc EXCEPT !.err = TRUE]
               ELSE [err |-> FALSE,
                     distances |-> MapPut(acc.distances, <<parts[1], parts[2]>>, f.val),
                     labelsSet |-> acc.labelsSet \cup {parts[1], parts[2]}]

RECURSIVE sparseLoop(_, _)
sparseLoop(lines, n) ==
  IF n = 0 THEN [err |-> FALSE, distances |-> EmptyMap, labelsSet |-> {}]
  ELSE sparseLine(sparseLoop(lines, n - 1), lines[n])

readSparseMatrix(lines) ==
  LET r == sparseLoop(lines, Len(lines))
  IN  [err |-> r.err, distances |-> r.distances, labels |-> SortStrings(r.labelsSet)]

\* One cell of the row loop of the pair-keyed writeSquareMatrix: 1.0 hundredths
\* = 100 by default, 0 on the diagonal, the stored value for the key
\* [label1, label2].
cellPair(label1, label2, dists) ==
  LET distance == IF label1 = label2 THEN 0
                  ELSE IF <<label1, label2>> \in DOMAIN dists
                       THEN dists[<<label1, label2>>]
                       ELSE 100
  IN  FormatF1(distance)

rowPair(label1, lbls, dists) ==
  [j \in 1..Len(lbls) |-> cellPair(label1, lbls[j], dists)]

\* rowsDone that stops one label early.
rowsDoneEarly(idx, lbls) == idx >= Len(lbls)

\* `for _, label1 := range labels` is over once every label had its row.
rowsDone(idx, lbls) == idx > Len(lbls)

\* ------------------------------------------------------------- state
VARIABLES
  input,          \* the input file, a sequence of lines
  variant,        \* which of the three programs runs
  modeFlag,       \* value given to --mode, "" when the flag is absent
  compressLevel,  \* --compresslevel
  pc,             \* position of the run
  exitCode,       \* -1 while running; 0 normal, 1 log.Fatal, 2 flag error
  labels,         \* the sorted label index
  store,          \* "none", "mem", "disk" or "pair"
  data,           \* nested map of readInputFileIntoMemory
  distances,      \* pair-keyed map of readSparseMatrix
  rowIdx,         \* index of the next label of the row loop
  rowOf,          \* labels whose rows were handed to the writer, in order
  buf,            \* lines held by the bufio.Writer
  gzData,         \* lines held by the gzip writer
  fileData,       \* lines that reached the output file
  fileOpen,       \* the output file is open
  gzOpen,         \* the gzip writer is open
  werr,           \* sticky error of the bufio.Writer
  deferred,       \* deferred calls of the writing function, next one first
  released,       \* deferred calls that ran, in order
  err             \* the writing function is returning an error

vars == <<input, variant, modeFlag, compressLevel, pc, exitCode, labels, store,
          data, distances, rowIdx, rowOf, buf, gzData, fileData, fileOpen,
          gzOpen, werr, deferred, released, err>>

sinkVars == <<rowOf, buf, gzData, fileData, fileOpen, gzOpen, werr, deferred,
              released, err>>
runVars == <<input, variant, modeFlag, compressLevel>>

\* Everything handed to the writer so far, in write order.
Emitted == fileData \o gzData \o buf

Init ==
  /\ input \in Inputs
  /\ \E c \in Configs : variant = c[1] /\ modeFlag = c[2]
  /\ compressLevel \in CompressLevels
  /\ pc = "start"
  /\ exitCode = -1
  /\ labels = << >>
  /\ store = "none"
  /\ data = EmptyMap
  /\ distances = EmptyMap
  /\ rowIdx = 0
  /\ rowOf = << >>
  /\ buf = << >>
  /\ gzData = << >>
  /\ fileData = << >>
  /\ fileOpen = FALSE
  /\ gzOpen = FALSE
  /\ werr = FALSE
  /\ deferred = << >>
  /\ released = << >>
  /\ err = FALSE

\* log.Fatal / log.Fatalf / os.Exit: the process ends at once, deferred
\* calls do not run.
Exit(code) == pc' = "exit" /\ exitCode' = code

\* flag.Parse in main: the programs define -input, -output and
\* -compresslevel only; any other flag is a usage error, exit status 2.
ParseFlags ==
  /\ pc = "start"
  /\ IF modeFlag # "" THEN Exit(2)
     ELSE /\ pc' = IF variant = "dual" THEN "scan" ELSE "read"
          /\ UNCHANGED exitCode
  /\ UNCHANGED <<runVars, labels, store, data, distances, rowIdx, sinkVars>>

\* main of "dual": scanForLabels, fatal when the input cannot be read.
ScanForLabels ==
  /\ pc = "scan"
  /\ \E ioOk \in BOOLEAN :
       IF ioOk
       THEN /\ labels' = scanForLabels(input)
            /\ pc' = "select"
            /\ UNCHANGED exitCode
       ELSE /\ Exit(1)
            /\ UNCHANGED labels
  /\ UNCHANGED <<runVars, store, data, distances, rowIdx, sinkVars>>

\* main of "dual": the choice between the two writing functions.
SelectMode ==
  /\ pc = "select"
  /\ IF Len(labels) > LargeNThreshold
     THEN store' = "disk" /\ pc' = "create"
     ELSE store' = "mem" /\ pc' = "ingest"
  /\ UNCHANGED <<runVars, exitCode, labels, data, distances, rowIdx, sinkVars>>

\* writeSquareMatrixInMemory, first statement: nothing is deferred yet, so
\* an error goes straight to log.Fatalf in main.
ReadInputFileIntoMemory ==
  /\ pc = "ingest"
  /\ \E ioOk \in BOOLEAN :
       IF ioOk
       THEN /\ data' = readInputFileIntoMemory(input)
            /\ pc' = "create"
            /\ UNCHANGED exitCode
       ELSE /\ Exit(1)
            /\ UNCHANGED data
  /\ UNCHANGED <<runVars, labels, store, distances, rowIdx, sinkVars>>

\* main of "pair" and "fatal": readSparseMatrix.
ReadSparseMatrix ==
  /\ pc = "read"
  /\ \E ioOk \in BOOLEAN :
       LET r == readSparseMatrix(input)
       IN  IF ioOk /\ ~r.err
           THEN /\ distances' = r.distances
                /\ labels' = r.labels
                /\ store' = "pair"
                /\ pc' = "create"
                /\ UNCHANGED exitCode
           ELSE /\ Exit(1)
                /\ UNCHANGED <<distances, labels, store>>
  /\ UNCHANGED <<runVars, data, rowIdx, sinkVars>>

\* A failure inside a writing function: "fatal" calls log.Fatalf on the
\* spot, the others return the error through their deferred calls.
Abort ==
  IF variant = "fatal"
  THEN Exit(1) /\ UNCHANGED err
  ELSE pc' = "unwind" /\ err' = TRUE /\ UNCHANGED exitCode

\* os.Create, gzip.NewWriterLevel, bufio.NewWriter and their defers.
CreateSink ==
  /\ pc = "create"
  /\ \E createOk \in BOOLEAN :
       IF ~createOk
       THEN /\ Exit(1)
            /\ UNCHANGED <<fileOpen, gzOpen, deferred, err>>
       ELSE /\ fileOpen' = TRUE
            /\ IF GzipLevelOK(compressLevel)
               THEN /\ gzOpen' = TRUE
                    /\ deferred' = <<"writer.Flush", "gz.Close", "file.Close">>
                    /\ pc' = "header"
                    /\ UNCHANGED <<exitCode, err>>
               ELSE /\ deferred' = <<"file.Close">>
                    /\ Abort
                    /\ UNCHANGED gzOpen
  /\ UNCHANGED <<runVars, labels, store, data, distances, rowIdx, rowOf, buf,
                 gzData, fileData, werr, released>>

\* writer.WriteString(strings.Join(labels, "\t") + "\n")
WriteHeader ==
  /\ pc = "header"
  /\ \E writeOk \in BOOLEAN :
       IF writeOk
       THEN /\ buf' = Append(buf, labels)
            /\ rowIdx' = 1
            /\ pc' = "rows"
            /\ UNCHANGED <<exitCode, err, werr>>
       ELSE /\ werr' = TRUE
            /\ Abort
            /\ UNCHANGED <<buf, rowIdx>>
  /\ UNCHANGED <<runVars, labels, store, data, distances, rowOf, gzData,
                 fileData, fileOpen, gzOpen, deferred, released>>

\* The write of one finished row, shared by the three row loops.
EmitRow(row, writeOk) ==
  IF writeOk
  THEN /\ buf' = Append(buf, row)
       /\ rowOf' = Append(rowOf, labels[rowIdx])
       /\ rowIdx' = rowIdx + 1
       /\ UNCHANGED <<pc, exitCode, err, werr>>
  ELSE /\ werr' = TRUE
       /\ Abort
       /\ UNCHANGED <<buf, rowOf, rowIdx>>

\* writeRow for the next label: reopen and scan the input, then write.
WriteRowDisk ==
  /\ pc = "rows" /\ store = "disk" /\ ~rowsDone(rowIdx, labels)
  /\ \E ioOk \in BOOLEAN, writeOk \in BOOLEAN :
       IF ioOk
       THEN EmitRow(writeRow(input, labels[rowIdx], labels), writeOk)
       ELSE /\ Abort
            /\ UNCHANGED <<buf, rowOf, rowIdx, werr>>
  /\ UNCHANGED <<runVars, labels, store, data, distances, gzData, fileData,
                 fileOpen, gzOpen, deferred, released>>

\* writeRowInMemory for the next label.
WriteRowInMemory ==
  /\ pc = "rows" /\ store = "mem" /\ ~rowsDone(rowIdx, labels)
  /\ \E writeOk \in BOOLEAN :
       EmitRow(writeRowInMemory(labels[rowIdx], labels, data), writeOk)
  /\ UNCHANGED <<runVars, labels, store, data, distances, gzData, fileData,
                 fileOpen, gzOpen, deferred, released>>

\* One turn of the row loop of the pair-keyed writeSquareMatrix.
WriteRowPair ==
  /\ pc = "rows" /\ store = "pair" /\ ~rowsDone(rowIdx, labels)
  /\ \E writeOk \in BOOLEAN :
       EmitRow(rowPair(labels[rowIdx], labels, distances), writeOk)
  /\ UNCHANGED <<runVars, labels, store, data, distances, gzData, fileData,
                 fileOpen, gzOpen, deferred, released>>

\* The row loop is over: the writing function returns without error.
ReturnNil ==
  /\ pc = "rows" /\ rowsDone(rowIdx, labels)
  /\ pc' = "unwind"
  /\ err' = FALSE
  /\ UNCHANGED <<runVars, exitCode, labels, store, data, distances, rowIdx,
                 rowOf, buf, gzData, fileData, fileOpen, gzOpen, werr,
                 deferred, released>>

\* The next deferred call of the returning function.  Flush does nothing
\* once the writer has an error; the results of all three are discarded.
RunDeferred ==
  /\ pc = "unwind" /\ deferred # << >>
  /\ LET call == Head(deferred)
     IN  /\ released' = Append(released, call)
         /\ deferred' = Tail(deferred)
         /\ CASE call = "writer.Flush" ->
                   /\ IF werr THEN UNCHANGED <<buf, gzData>>
                      ELSE gzData' = gzData \o buf /\ buf' = << >>
                   /\ UNCHANGED <<fileData, fileOpen, gzOpen>>
              [] call = "gz.Close" ->
                   /\ fileData' = fileData \o gzData
                   /\ gzData' = << >>
                   /\ gzOpen' = FALSE
                   /\ UNCHANGED <<buf, fileOpen>>
              [] call = "file.Close" ->
                   /\ fileOpen' = FALSE
                   /\ UNCHANGED <<buf, gzData, fileData, gzOpen>>
  /\ UNCHANGED <<runVars, pc, exitCode, labels, store, data, distances,
                 rowIdx, rowOf, werr, err>>

\* Back in main: log.Fatalf on an error, otherwise main returns.
ReturnToMain ==
  /\ pc = "unwind" /\ deferred = << >>
  /\ Exit(IF err THEN 1 ELSE 0)
  /\ UNCHANGED <<runVars, labels, store, data, distances, rowIdx, sinkVars>>

Next ==
  \/ ParseFlags
  \/ ScanForLabels
  \/ SelectMode
  \/ ReadInputFileIntoMemory
  \/ ReadSparseMatrix
  \/ CreateSink
  \/ WriteHeader
  \/ WriteRowDisk
  \/ WriteRowInMemory
  \/ WriteRowPair
  \/ ReturnNil
  \/ RunDeferred
  \/ ReturnToMain

Spec == Init /\ [][Next]_vars

\* =============================================================== claims
\* The run ended normally.
Done == pc = "exit" /\ exitCode = 0

\* A line both distance passes accept: three fields, numeric third field.
Accepted(line) ==
  Len(Fields(line)) = 3 /\ ParseFloat(Fields(line)[3]).ok

\* Line k is an accepted line about the unordered pair {a, b}.
Relates(k, a, b) ==
  /\ Accepted(input[k])
  /\ {Fields(input[k])[1], Fields(input[k])[2]} = {a, b}

\* Line k is the last accepted line about its unordered pair.
LastOfPair(k) ==
  /\ Accepted(input[k])
  /\ \A m \in (k + 1)..Len(input) :
       ~Relates(m, Fields(input[k])[1], Fields(input[k])[2])

Index(l) == CHOOSE i \in 1..Len(labels) : labels[i] = l

\* Cell (row a, column b) of the finished output file.
Cell(a, b) == fileData[1 + Index(a)][Index(b)]

\* C1 - Symmetry: in the finished matrix of every program, the last line
\* `A B d` (A # B) about the pair {A,B} sets both cell(A,B) and cell(B,A)
\* to d, whichever direction the input gave.
Symmetry ==
  Done =>
    \A k \in 1..Len(input) :
      LastOfPair(k) =>
        LET a == Fields(input[k])[1]
            b == Fields(input[k])[2]
            d == FormatF1(ParseFloat(Fields(input[k])[3]).val)
        IN  a # b => Cell(a, b) = d /\ Cell(b, a) = d

\* Whole output of the in-memory path on a file.
MemOutput(lines) ==
  LET lbls == scanForLabels(lines)
      d == readInputFileIntoMemory(lines)
  IN  <<lbls>> \o [i \in 1..Len(lbls) |-> writeRowInMemory(lbls[i], lbls, d)]

\* Whole output of the disk-scanning path on a file.
DiskOutput(lines) ==
  LET lbls == scanForLabels(lines)
  IN  <<lbls>> \o [i \in 1..Len(lbls) |-> writeRow(lines, lbls[i], lbls)]

\* C2 - Mode equivalence: whichever store the run used, the file it wrote
\* is the output of the in-memory path and of the disk-scanning path alike,
\* and every row emitted on the way is the row both paths give.
ModeEquivalence ==
  variant = "dual" =>
    /\ \A i \in 1..Len(rowOf) :
         /\ Emitted[i + 1] = writeRow(input, rowOf[i], labels)
         /\ Emitted[i + 1] =
              writeRowInMemory(rowOf[i], labels, readInputFileIntoMemory(input))
    /\ Done => fileData = MemOutput(input) /\ fileData = DiskOutput(input)

ModeEquivalenceWitness ==
  /\ variant = "dual" /\ Done /\ store = "mem"
  /\ Len(labels) >= 2
  /\ \E k \in 1..Len(input) : ~Accepted(input[k])
  /\ \E k \in 1..Len(input) : Accepted(input[k])

\* The label scan has returned.
Scanned == variant = "dual" /\ (pc = "select" \/ store \in {"mem", "disk"})

\* Tokens in field 1 or 2 of the lines with at least two fields.
LabelTokens ==
  UNION { {Fields(input[k])[1], Fields(input[k])[2]} :
            k \in {m \in 1..Len(input) : Len(Fields(input[m])) >= 2} }

\* C3 - Header content: the label index is exactly the tokens of fields 1
\* and 2 of the lines with at least two fields, strictly ascending in
\* bytewise order, and it is what the header line holds.
HeaderContent ==
  Scanned =>
    /\ {labels[i] : i \in 1..Len(labels)} = LabelTokens
    /\ \A i \in 1..Len(labels), j \in 1..Len(labels) :
         i < j => StrLess(labels[i], labels[j])
    /\ Emitted # << >> => Emitted[1] = labels

HeaderContentWitness ==
  /\ Scanned /\ Done
  /\ \E k \in 1..Len(input) : Len(Fields(input[k])) = 2
  /\ \E k \in 1..Len(input) : Len(Fields(input[k])) < 2

ZeroDiagonal ==
  \A i \in 1..Len(rowOf) : Emitted[i + 1][Index(rowOf[i])] = "0.0"

ZeroDiagonalWitness ==
  /\ Done /\ store = "mem"
  /\ \E k \in 1..Len(input) :
       /\ Accepted(input[k])
       /\ Fields(input[k])[1] = Fields(input[k])[2]
       /\ ParseFloat(Fields(input[k])[3]).val # 0
       /\ Fields(input[k])[1] \in {rowOf[i] : i \in 1..Len(rowOf)}

\* C6 - Default fill: in every emitted row, the cell of a different label
\* that no accepted line relates to the row's label is 1.0.
DefaultFill ==
  \A i \in 1..Len(rowOf), j \in 1..Len(labels) :
    ( /\ rowOf[i] # labels[j]
      /\ ~\E k \in 1..Len(input) : Relates(k, rowOf[i], labels[j]) )
    => Emitted[i + 1][j] = "1.0"

DefaultFillWitness ==
  /\ Done /\ store = "disk"
  /\ \E i \in 1..Len(labels), j \in 1..Len(labels) :
       /\ i # j
       /\ ~\E k \in 1..Len(input) : Relates(k, labels[i], labels[j])

\* The store the documented --mode value and the label count call for.
ExpectedStore ==
  CASE modeFlag = "mem"  -> "mem"
    [] modeFlag = "disk" -> "disk"
    [] OTHER -> IF Len(labels) <= LargeNThreshold THEN "mem" ELSE "disk"

\* C7 - Mode selection: each documented mode value is accepted, and the
\* store used is the in-memory one for `mem`, the disk-scanning one for
\* `disk`, and for `auto` the in-memory one exactly when N <= T.
ModeSelection ==
  variant = "dual" =>
    /\ modeFlag \in {"auto", "mem", "disk"} => exitCode # 2
    /\ store # "none" => store = ExpectedStore

SquareOutput ==
  /\ Emitted # << >> => Emitted[1] = labels
  /\ Len(rowOf) = (IF Emitted = << >> THEN 0 ELSE Len(Emitted) - 1)
  /\ \A i \in 1..Len(rowOf) :
       rowOf[i] = labels[i] /\ Len(Emitted[i + 1]) = Len(labels)
  /\ Done => fileData = Emitted /\ Len(fileData) = Len(labels) + 1
  /\ (Done /\ input = << >>) => fileData = << << >> >>

SquareOutputWitness ==
  Done /\ Len(labels) >= 3 /\ Len(fileData) = 4

\* The buffered gzip sink was set up during the run.
SinkOpened == gzOpen \/ \E i \in 1..Len(released) : released[i] = "gz.Close"

\* C10 - Sink release on every path: when a process that had opened the
\* sink has ended, the deferred calls of the writing function have all run,
\* flush before gzip close before file close, nothing is open and no
\* written line is left in a buffer.
SinkRelease ==
  (pc = "exit" /\ SinkOpened) =>
    /\ deferred = << >>
    /\ ~fileOpen /\ ~gzOpen
    /\ released = <<"writer.Flush", "gz.Close", "file.Close">>
    /\ ~werr => buf = << >> /\ gzData = << >>

====
